---- MODULE Spec2Model ----
(***************************************************************************)
(* Model of qilin.stack: AbstractStack (base.py) and ArrayStack            *)
(* (concrete.py).  Python lists are objects on a heap; a stack holds a     *)
(* reference to its backing list in the slot _values.                      *)
(***************************************************************************)
EXTENDS Integers, Sequences, FiniteSets, TLC

\* ---------------------------------------------------------------- bounds
MaxLen == 3
NumValues == 2
NumStacks == 2
NumIters == 2
\* longest list in the programs that work on two stacks at once
MaxLenPair == 2
\* longest list in the program that works on two stacks and a source list
MaxLenAlias == 1

Values == 1..NumValues
Stacks == 1..NumStacks
Iters == 1..NumIters
\* list objects: one caller-owned list and, per stack, the list that the
\* stack's constructor allocates
Refs == 0..NumStacks
FreshList(s) == s

RECURSIVE SeqsOfLen(_)
SeqsOfLen(n) ==
    IF n = 0 THEN {<<>>}
    ELSE {Append(xs, v) : xs \in SeqsOfLen(n - 1), v \in Values}
BoundedSeqs == UNION {SeqsOfLen(n) : n \in 0..MaxLen}
ShortSeqs == UNION {SeqsOfLen(n) : n \in 0..MaxLenPair}

Reverse(xs) == [i \in 1..Len(xs) |-> xs[Len(xs) + 1 - i]]

VARIABLES
    heap,      \* list object -> its elements, index 1 is Python index 0
    _values,   \* stack -> the list object its _values slot refers to
    iters,     \* generator objects returned by __iter__
    last,      \* the most recent call: what it was given, returned, raised
    prev,      \* the call before the most recent one
    live,      \* history: per stack, elements pushed and not yet removed
    count,     \* history: per stack, initial + pushes - successful pops
    run        \* history: per stack, pushes since the stack was last empty

vars == <<heap, _values, iters, last, prev, live, count, run>>

\* ------------------------------------------------------------ list object
list_len(xs) == Len(xs)
\* insert(0, v) instead of append(v)
list_append_front(xs, v) == <<v>> \o xs
list_append(xs, v) == Append(xs, v)
\* extending by pushing while walking the source from its end
list_extend_reversed(xs, ys) == xs \o [i \in 1..Len(ys) |-> ys[Len(ys) + 1 - i]]
list_extend(xs, ys) == xs \o ys
\* pop(0) instead of pop()
list_pop_front(xs) ==
    IF Len(xs) = 0 THEN [err |-> "IndexError", ret |-> <<>>, list |-> xs]
    ELSE [err |-> "none", ret |-> <<xs[1]>>, list |-> SubSeq(xs, 2, Len(xs))]
\* list.pop(): remove and return the last element; IndexError when empty
list_pop(xs) ==
    IF Len(xs) = 0 THEN [err |-> "IndexError", ret |-> <<>>, list |-> xs]
    ELSE [err |-> "none", ret |-> <<xs[Len(xs)]>>,
          list |-> SubSeq(xs, 1, Len(xs) - 1)]
\* xs[-1]; IndexError when empty
list_last(xs) ==
    IF Len(xs) = 0 THEN [err |-> "IndexError", ret |-> <<>>]
    ELSE [err |-> "none", ret |-> <<xs[Len(xs)]>>]
\* xs[-1:] = [] instead of xs[:] = []
list_reset_top(xs) == SubSeq(xs, 1, Len(xs) - 1)
\* xs[:] = []
list_reset(xs) == <<>>
\* list(iterable) for an iterable that is a plain sequence of elements
list_of(iterable) == [i \in 1..Len(iterable) |-> iterable[i]]

contents(s) == heap[_values[s]]

\* ----------------------------------------------------------- pure queries
__len__(s) == list_len(contents(s))
\* the index of the top instead of the number of elements
size_top_index(s) == __len__(s) - 1
size(s) == __len__(s)
is_empty(s) == __len__(s) = 0
\* the negation left out
bool_is_empty(s) == is_empty(s)
__bool__(s) == ~is_empty(s)

\* ------------------------------------------------- outcomes of the methods
\* An outcome is the raised exception (or "none"), the returned value
\* (<<v>>, or <<>> for None / nothing) and the backing list afterwards.
Outcome(err, ret, xs) == [err |-> err, ret |-> ret, list |-> xs]

push(s, value) == Outcome("none", <<>>, list_append(contents(s), value))

\* a sentinel instead of the raise
pop_sentinel(s) ==
    IF is_empty(s)
    THEN Outcome("none", <<>>, contents(s))
    ELSE LET r == list_pop(contents(s)) IN Outcome(r.err, r.ret, r.list)

\* the element is removed before the emptiness check
pop_check_late(s) ==
    LET r == list_pop(contents(s)) IN
    IF r.list = <<>>
    THEN Outcome("IndexError", <<>>, r.list)
    ELSE Outcome(r.err, r.ret, r.list)

\* the top is returned but left in place
pop_keep(s) ==
    IF is_empty(s)
    THEN Outcome("IndexError", <<>>, contents(s))
    ELSE LET r == list_last(contents(s)) IN Outcome(r.err, r.ret, contents(s))

pop(s) ==
    IF is_empty(s)
    THEN Outcome("IndexError", <<>>, contents(s))
    ELSE LET r == list_pop(contents(s)) IN Outcome(r.err, r.ret, r.list)

\* the top is taken off the list to be returned
peek_remove(s) ==
    IF is_empty(s)
    THEN Outcome("IndexError", <<>>, contents(s))
    ELSE LET r == list_pop(contents(s)) IN Outcome(r.err, r.ret, r.list)

peek(s) ==
    IF is_empty(s)
    THEN Outcome("IndexError", <<>>, contents(s))
    ELSE LET r == list_last(contents(s)) IN Outcome(r.err, r.ret, contents(s))

clear(s) == Outcome("none", <<>>, list_reset(contents(s)))

\* __init__(iterable): iterable is <<>> for None, <<xs>> for a sequence xs
init_list(iterable) ==
    IF iterable = <<>> THEN <<>>
    ELSE LET buffered == list_of(iterable[1]) IN list_extend(<<>>, buffered)

\* ------------------------------------------------------------- __hash__
\* a hash derived from the contents: __hash__ = lambda self: hash(tuple(...))
hash_of_contents == "tuple"
\* the class attribute __hash__ = None
__hash__ == "None"

\* the value hash(tuple(xs)) stands for: a number determined by xs
RECURSIVE tuple_hash(_)
tuple_hash(xs) ==
    IF xs = <<>> THEN 1
    ELSE (tuple_hash(SubSeq(xs, 1, Len(xs) - 1)) * (NumValues + 1) + xs[Len(xs)]) % 65536

\* the builtin hash(s): a type whose __hash__ is None is unhashable
builtin_hash(s) ==
    IF __hash__ = "None"
    THEN Outcome("TypeError", <<>>, contents(s))
    ELSE Outcome("none", <<tuple_hash(contents(s))>>, contents(s))

\* d[s] = value on a dict d: the key is hashed first
dict_setitem(s) ==
    LET h == builtin_hash(s) IN
    IF h.err # "none" THEN h ELSE Outcome("none", <<>>, contents(s))

\* --------------------------------------------------------------- __eq__
\* an operand of a comparison: a stack, or a built-in value (list, tuple,
\* int, None) holding the given elements
StackOperand(s) == [kind |-> "ArrayStack", stack |-> s, items |-> <<>>]
Builtin(kind, xs) == [kind |-> kind, stack |-> 0, items |-> xs]
isinstance_ArrayStack(other) == other.kind = "ArrayStack"

\* only the lengths are compared
list_eq_len(xs, ys) == Len(xs) = Len(ys)
\* list.__eq__: same length and equal elements at every index
list_eq(xs, ys) ==
    /\ Len(xs) = Len(ys)
    /\ \A i \in 1..Len(xs) : xs[i] = ys[i]

PyBool(b) == IF b THEN "True" ELSE "False"

\* isinstance is not checked: anything with the same elements is equal
eq_duck_typed(s, other) ==
    IF other.kind = "ArrayStack"
    THEN PyBool(list_eq(contents(s), contents(other.stack)))
    ELSE PyBool(list_eq(contents(s), other.items))
\* ArrayStack.__eq__(self, other)
__eq__(s, other) ==
    IF ~isinstance_ArrayStack(other) THEN "NotImplemented"
    ELSE PyBool(list_eq(contents(s), contents(other.stack)))

\* other.__eq__(s) for the reflected try: a built-in value answers
\* NotImplemented for an operand that is not of its own type
reflected_eq(other, s) ==
    IF isinstance_ArrayStack(other) THEN __eq__(other.stack, StackOperand(s))
    ELSE "NotImplemented"

\* the expression s == other: __eq__, then the reflected __eq__, then
\* identity when both answer NotImplemented
operator_eq(s, other) ==
    LET direct == __eq__(s, other)
        reflected == reflected_eq(other, s)
        same_object == isinstance_ArrayStack(other) /\ other.stack = s
    IN IF direct # "NotImplemented" THEN Outcome("none", <<direct>>, contents(s))
       ELSE IF reflected # "NotImplemented" THEN Outcome("none", <<reflected>>, contents(s))
       ELSE Outcome("none", <<PyBool(same_object)>>, contents(s))

\* ------------------------------------------------------------- __iter__
\* xs[i] for a Python index i (negative indices count from the end)
list_getitem(xs, i) ==
    IF 0 <= i /\ i < Len(xs) THEN [err |-> "none", ret |-> <<xs[i + 1]>>]
    ELSE IF i < 0 /\ -Len(xs) <= i THEN [err |-> "none", ret |-> <<xs[Len(xs) + i + 1]>>]
    ELSE [err |-> "IndexError", ret |-> <<>>]

\* range(0, len(self._values)): bottom to top
iter_range_forward(s) == [start |-> 0, stop |-> list_len(contents(s)), step |-> 1]
\* range(len(self._values) - 1, -1, -1)
iter_range(s) == [start |-> list_len(contents(s)) - 1, stop |-> -1, step |-> -1]
in_range(r, i) == IF r.step > 0 THEN i < r.stop ELSE i > r.stop

\* a generator object: not requested ("none"), requested and not started
\* ("created"), suspended at the yield ("suspended"), finished ("done")
NoIter ==
    [pc |-> "none", stack |-> 0, range |-> [start |-> 0, stop |-> 0, step |-> 1],
     index |-> 0, res |-> "none", out |-> <<>>, earlier |-> {}]

\* what earlier, exhausted iterations of stack s have yielded
Exhausted(s) ==
    {iters[j].out : j \in {k \in Iters : iters[k].stack = s /\ iters[k].pc = "done"
                                         /\ iters[k].res = "StopIteration"}}

\* calling __iter__ returns a generator whose body has not started
__iter__(s) ==
    [pc |-> "created", stack |-> s, range |-> [start |-> 0, stop |-> 0, step |-> 1],
     index |-> 0, res |-> "none", out |-> <<>>, earlier |-> Exhausted(s)]

\* the generator g reaches the loop head with index i
loop_at(g, r, i) ==
    IF ~in_range(r, i)
    THEN [g EXCEPT !.pc = "done", !.range = r, !.res = "StopIteration"]
    ELSE LET e == list_getitem(contents(g.stack), i) IN
         IF e.err # "none"
         THEN [g EXCEPT !.pc = "done", !.range = r, !.index = i, !.res = e.err]
         ELSE [g EXCEPT !.pc = "suspended", !.range = r, !.index = i,
                        !.res = "yield", !.out = Append(@, e.ret[1])]

\* one cursor kept with the stack and shared by all its generators
next_shared_cursor(g) ==
    LET others == {k \in Iters : iters[k].stack = g.stack /\ iters[k].pc = "suspended"}
        cursor == IF others = {} THEN list_len(contents(g.stack))
                  ELSE CHOOSE n \in {iters[k].index : k \in others} :
                           \A k \in others : n <= iters[k].index
    IN IF g.pc \in {"created", "suspended"}
       THEN loop_at(g, iter_range(g.stack), cursor - 1)
       ELSE [g EXCEPT !.res = "StopIteration"]

\* next(g)
__next__(g) ==
    IF g.pc = "created" THEN LET r == iter_range(g.stack) IN loop_at(g, r, r.start)
    ELSE IF g.pc = "suspended" THEN loop_at(g, g.range, g.index + g.range.step)
    ELSE [g EXCEPT !.res = "StopIteration"]

\* --------------------------------------- __init__ from a list or a stack
\* the generator g run until it finishes: everything it yields
RECURSIVE drain(_)
drain(g) ==
    LET h == __next__(g) IN
    IF h.pc = "done" THEN h.out ELSE drain(h)

\* the backing list is copied as it is: list(iterable._values)
list_of_values(t) == contents(t)
\* list(iterable) for an iterable that is a stack: it is iterated
list_of_stack(t) == drain(__iter__(t))

\* the list that __init__ leaves in the new stack's backing list
init_from_stack(t) ==
    LET buffered == list_of_stack(t) IN list_extend(<<>>, buffered)

\* the caller's list object that a stack is constructed from
SourceList == CHOOSE r \in Refs : r \notin Stacks

\* the caller's list is adopted as the backing list: self._values = iterable
init_adopt(s, r) == r
\* the list object that __init__(iterable) binds to self._values when the
\* iterable is the list object r: always the list it has just created
init_values(s, r) == FreshList(s)

\* --------------------------------------------------------- history helpers
Call(op, s, arg, out) ==
    [op |-> op, stack |-> s, arg |-> arg, ret |-> out.ret, err |-> out.err,
     before |-> IF op = "__init__" THEN <<>> ELSE contents(s)]

MaxId(S) == IF S = {} THEN 0 ELSE CHOOSE n \in {e[1] : e \in S} : \A e \in S : e[1] <= n
Newest(S) == CHOOSE e \in S : e[1] = MaxId(S)
Tagged(xs) == {<<i, xs[i]>> : i \in 1..Len(xs)}
RECURSIVE InPushOrder(_)
InPushOrder(S) ==
    IF S = {} THEN <<>>
    ELSE Append(InPushOrder(S \ {Newest(S)}), Newest(S)[2])


\* ------------------------------------------------------------------ state
\* the stack the programs below work on: Main = ArrayStack()
Main == CHOOSE s \in Stacks : \A o \in Stacks : s <= o
FirstCall ==
    [op |-> "__init__", stack |-> Main, arg |-> <<>>, ret |-> <<>>,
     err |-> "none", before |-> <<>>]

Init ==
    /\ heap = [r \in Refs |-> <<>>]
    /\ _values = [s \in Stacks |-> FreshList(s)]
    /\ iters = [i \in Iters |-> NoIter]
    /\ last = FirstCall
    /\ prev = FirstCall
    /\ live = [s \in Stacks |-> {}]
    /\ count = [s \in Stacks |-> 0]
    /\ run = [s \in Stacks |-> [ok |-> TRUE, vs |-> <<>>]]

\* ---------------------------------------------------------------- actions
\* s = ArrayStack() / s = ArrayStack(iterable)
New(s, iterable) ==
    /\ _values' = [_values EXCEPT ![s] = FreshList(s)]
    /\ heap' = [heap EXCEPT ![FreshList(s)] = init_list(iterable)]
    /\ prev' = last
    /\ last' = Call("__init__", s, iterable, Outcome("none", <<>>, <<>>))
    /\ live' = [live EXCEPT ![s] = IF iterable = <<>> THEN {} ELSE Tagged(iterable[1])]
    /\ count' = [count EXCEPT ![s] = IF iterable = <<>> THEN 0 ELSE Len(iterable[1])]
    /\ run' = [run EXCEPT ![s] = [ok |-> iterable = <<>> \/ iterable[1] = <<>>, vs |-> <<>>]]
    /\ UNCHANGED iters

Push(s, value) ==
    /\ __len__(s) < MaxLen
    /\ LET r == push(s, value) IN
        /\ heap' = [heap EXCEPT ![_values[s]] = r.list]
        /\ prev' = last
        /\ last' = Call("push", s, <<value>>, r)
    /\ live' = [live EXCEPT ![s] = @ \cup {<<MaxId(@) + 1, value>>}]
    /\ count' = [count EXCEPT ![s] = @ + 1]
    /\ run' = [run EXCEPT ![s].vs = IF run[s].ok THEN Append(@, value) ELSE @]
    /\ UNCHANGED <<_values, iters>>

Pop(s) ==
    /\ LET r == pop(s) IN
        /\ heap' = [heap EXCEPT ![_values[s]] = r.list]
        /\ prev' = last
        /\ last' = Call("pop", s, <<>>, r)
        /\ live' = [live EXCEPT ![s] = IF r.err = "none" THEN @ \ {Newest(@)} ELSE @]
        /\ count' = [count EXCEPT ![s] = IF r.err = "none" THEN @ - 1 ELSE @]
        /\ run' = [run EXCEPT ![s] =
                      IF r.err # "none" THEN @
                      ELSE IF count[s] = 1 THEN [ok |-> TRUE, vs |-> <<>>]
                      ELSE [ok |-> FALSE, vs |-> <<>>]]
    /\ UNCHANGED <<_values, iters>>

Peek(s) ==
    /\ LET r == peek(s) IN
        /\ heap' = [heap EXCEPT ![_values[s]] = r.list]
        /\ prev' = last
        /\ last' = Call("peek", s, <<>>, r)
    /\ UNCHANGED <<_values, iters, live, count, run>>

Clear(s) ==
    /\ LET r == clear(s) IN
        /\ heap' = [heap EXCEPT ![_values[s]] = r.list]
        /\ prev' = last
        /\ last' = Call("clear", s, <<>>, r)
    /\ live' = [live EXCEPT ![s] = {}]
    /\ count' = [count EXCEPT ![s] = 0]
    /\ run' = [run EXCEPT ![s] = [ok |-> TRUE, vs |-> <<>>]]
    /\ UNCHANGED <<_values, iters>>

\* s = ArrayStack(t) for a stack t
NewFromStack(s, t) ==
    /\ _values' = [_values EXCEPT ![s] = FreshList(s)]
    /\ heap' = [heap EXCEPT ![FreshList(s)] = init_from_stack(t)]
    /\ prev' = last
    /\ last' = Call("__init__", s, <<StackOperand(t), contents(t)>>,
                    Outcome("none", <<>>, <<>>))
    /\ live' = [live EXCEPT ![s] = Tagged(Reverse(InPushOrder(live[t])))]
    /\ count' = [count EXCEPT ![s] = count[t]]
    /\ run' = [run EXCEPT ![s] = [ok |-> count[t] = 0, vs |-> <<>>]]
    /\ UNCHANGED iters

\* s = ArrayStack(source) for the caller's list object r
NewFromList(s, r) ==
    /\ _values' = [_values EXCEPT ![s] = init_values(s, r)]
    /\ heap' = [heap EXCEPT ![init_values(s, r)] = init_list(<<heap[r]>>)]
    /\ prev' = last
    /\ last' = Call("__init__", s, <<heap[r]>>, Outcome("none", <<>>, <<>>))
    /\ live' = [live EXCEPT ![s] = Tagged(heap[r])]
    /\ count' = [count EXCEPT ![s] = Len(heap[r])]
    /\ run' = [run EXCEPT ![s] = [ok |-> heap[r] = <<>>, vs |-> <<>>]]
    /\ UNCHANGED iters

\* the caller mutates its own list: source.append(v), source.pop(),
\* source.clear()
SourceAppend(v) ==
    /\ list_len(heap[SourceList]) < MaxLenAlias
    /\ heap' = [heap EXCEPT ![SourceList] = list_append(@, v)]
    /\ UNCHANGED <<_values, iters, last, prev, live, count, run>>

SourcePop ==
    /\ heap' = [heap EXCEPT ![SourceList] = list_pop(@).list]
    /\ UNCHANGED <<_values, iters, last, prev, live, count, run>>

SourceClear ==
    /\ heap' = [heap EXCEPT ![SourceList] = list_reset(@)]
    /\ UNCHANGED <<_values, iters, last, prev, live, count, run>>

\* hash(s)
Hash(s) ==
    /\ LET r == builtin_hash(s) IN
        /\ heap' = [heap EXCEPT ![_values[s]] = r.list]
        /\ prev' = last
        /\ last' = Call("hash", s, <<>>, r)
    /\ UNCHANGED <<_values, iters, live, count, run>>

\* {s: ...} / d[s] = ...
DictKey(s) ==
    /\ LET r == dict_setitem(s) IN
        /\ heap' = [heap EXCEPT ![_values[s]] = r.list]
        /\ prev' = last
        /\ last' = Call("dict_key", s, <<>>, r)
    /\ UNCHANGED <<_values, iters, live, count, run>>

\* s.__eq__(other)
EqMethod(s, other) ==
    /\ prev' = last
    /\ last' = Call("__eq__", s, <<other>>, Outcome("none", <<__eq__(s, other)>>, contents(s)))
    /\ UNCHANGED <<heap, _values, iters, live, count, run>>

\* s == other
EqOperator(s, other) ==
    /\ prev' = last
    /\ last' = Call("==", s, <<other>>, operator_eq(s, other))
    /\ UNCHANGED <<heap, _values, iters, live, count, run>>

\* it = iter(s)
Iter(i, s) ==
    /\ iters' = [iters EXCEPT ![i] = __iter__(s)]
    /\ UNCHANGED <<heap, _values, last, prev, live, count, run>>

\* next(it)
IterNext(i) ==
    /\ iters[i].pc # "none"
    /\ iters' = [iters EXCEPT ![i] = __next__(iters[i])]
    /\ UNCHANGED <<heap, _values, last, prev, live, count, run>>

\* the program that exercises one stack through its whole interface
Next ==
    \/ \E xs \in BoundedSeqs : New(Main, <<xs>>)
    \/ New(Main, <<>>)
    \/ \E v \in Values : Push(Main, v)
    \/ Pop(Main)
    \/ Peek(Main)
    \/ Clear(Main)

Spec == Init /\ [][Next]_vars

\* the program that builds one stack and then only iterates over it
InitIter ==
    \E xs \in BoundedSeqs :
        /\ heap = [r \in Refs |-> IF r = FreshList(Main) THEN init_list(<<xs>>) ELSE <<>>]
        /\ _values = [s \in Stacks |-> FreshList(s)]
        /\ iters = [i \in Iters |-> NoIter]
        /\ last = [FirstCall EXCEPT !.arg = <<xs>>]
        /\ prev = FirstCall
        /\ live = [s \in Stacks |-> IF s = Main THEN Tagged(xs) ELSE {}]
        /\ count = [s \in Stacks |-> IF s = Main THEN Len(xs) ELSE 0]
        /\ run = [s \in Stacks |-> [ok |-> s # Main \/ xs = <<>>, vs |-> <<>>]]

NextIter ==
    \/ \E i \in Iters : Iter(i, Main)
    \/ \E i \in Iters : IterNext(i)

SpecIter == InitIter /\ [][NextIter]_vars

\* the program that builds one stack, mutates it and tries to hash it
NextHash ==
    \/ \E v \in Values : Push(Main, v)
    \/ Pop(Main)
    \/ Clear(Main)
    \/ Hash(Main)
    \/ DictKey(Main)

SpecHash == InitIter /\ [][NextHash]_vars

\* the second stack of the programs that work on two stacks
Other == CHOOSE s \in Stacks \ {Main} : \A o \in Stacks \ {Main} : s <= o
Pair == {Main, Other}

\* Main = ArrayStack(xs); Other = ArrayStack(ys)
InitPair ==
    \E xs \in ShortSeqs, ys \in ShortSeqs :
        LET src == [s \in Stacks |-> IF s = Main THEN xs ELSE IF s = Other THEN ys ELSE <<>>] IN
        /\ heap = [r \in Refs |-> IF r \in {FreshList(s) : s \in Pair}
                                  THEN init_list(<<src[r]>>) ELSE <<>>]
        /\ _values = [s \in Stacks |-> FreshList(s)]
        /\ iters = [i \in Iters |-> NoIter]
        /\ last = [FirstCall EXCEPT !.stack = Other, !.arg = <<ys>>]
        /\ prev = [FirstCall EXCEPT !.arg = <<xs>>]
        /\ live = [s \in Stacks |-> Tagged(src[s])]
        /\ count = [s \in Stacks |-> Len(src[s])]
        /\ run = [s \in Stacks |-> [ok |-> src[s] = <<>>, vs |-> <<>>]]

\* the program that mutates two stacks and compares them
NextEq ==
    \/ \E s \in Pair, v \in Values : __len__(s) < MaxLenPair /\ Push(s, v)
    \/ \E s \in Pair : Pop(s)
    \/ \E s \in Pair : Clear(s)
    \/ \E s \in Pair, o \in Pair : EqMethod(s, StackOperand(o))
    \/ \E s \in Pair, o \in Pair : EqOperator(s, StackOperand(o))

SpecEq == InitPair /\ [][NextEq]_vars

\* built-in values a stack is compared with: a list or tuple of its own
\* elements, an empty list, an int, None
Builtins(s) ==
    {Builtin("list", contents(s)), Builtin("tuple", contents(s)),
     Builtin("list", <<>>), Builtin("int", <<>>), Builtin("NoneType", <<>>)}

\* the program that mutates one stack and compares it with built-in values
NextEqOther ==
    \/ \E v \in Values : Push(Main, v)
    \/ Pop(Main)
    \/ Clear(Main)
    \/ \E o \in Builtins(Main) : EqMethod(Main, o)
    \/ \E o \in Builtins(Main) : EqOperator(Main, o)

SpecEqOther == InitIter /\ [][NextEqOther]_vars

\* the program that steps one iteration while it mutates the stack
OneIter == CHOOSE i \in Iters : \A j \in Iters : i <= j

NextIterMutate ==
    \/ Iter(OneIter, Main)
    \/ IterNext(OneIter)
    \/ \E v \in Values : Push(Main, v)
    \/ Pop(Main)
    \/ Clear(Main)

SpecIterMutate == InitIter /\ [][NextIterMutate]_vars

\* the program that builds stacks from stacks: Other = ArrayStack(Main),
\* Other = ArrayStack(Other), with Main mutated and compared in between
NextCopy ==
    \/ \E t \in Pair : NewFromStack(Other, t)
    \/ \E v \in Values : __len__(Main) < MaxLenPair /\ Push(Main, v)
    \/ Pop(Main)
    \/ EqOperator(Other, StackOperand(Main))

SpecCopy == InitPair /\ [][NextCopy]_vars

\* the program that builds two stacks from one list of its own and goes on
\* mutating the list and the stacks
NextAlias ==
    \/ \E s \in Pair : NewFromList(s, SourceList)
    \/ \E v \in Values : SourceAppend(v)
    \/ SourcePop
    \/ SourceClear
    \/ \E s \in Pair, v \in Values : __len__(s) < MaxLenAlias /\ Push(s, v)
    \/ \E s \in Pair : Pop(s)
    \/ \E s \in Pair : Clear(s)

SpecAlias == Init /\ [][NextAlias]_vars

\* ================================================================ claims
Top(S) == Newest(S)[2]

\* C1 (as stated): whenever pop() or peek() is called on a stack of size 0
\* the call fails with the error kind EmptyStackError.
C1_EmptyStackError ==
    (last.op \in {"pop", "peek"} /\ last.before = <<>>)
        => last.err = "EmptyStackError"

\* C1 (amended): in every reachable state where the stack has size 0,
\* pop() and peek() both fail with the built-in IndexError and return no
\* value, and every pop()/peek() actually called on an empty stack did so.
C1_EmptyRaisesIndexError ==
    /\ \A s \in Stacks :
          size(s) = 0 =>
              /\ pop(s).err = "IndexError" /\ pop(s).ret = <<>>
              /\ peek(s).err = "IndexError" /\ peek(s).ret = <<>>
    /\ (last.op \in {"pop", "peek"} /\ last.before = <<>>)
          => (last.err = "IndexError" /\ last.ret = <<>>)

\* C1 witness: a pop() on a stack emptied by clear() has failed.
C1_Witness ==
    /\ last.op = "pop" /\ last.err = "IndexError" /\ last.before = <<>>
    /\ prev.op = "clear" /\ prev.before # <<>>

\* C2: a failed pop() or peek() changes no list object and no stack's
\* backing reference, the backing array is empty afterwards, and push, pop,
\* peek and size have the outcome they had before the failed call.
C2_FailedCallChangesNothing ==
    [][\A s \in Stacks :
          ((Pop(s) \/ Peek(s)) /\ last'.err # "none") =>
              /\ heap' = heap /\ _values' = _values
              /\ heap'[_values'[s]] = <<>>
              /\ pop(s)' = pop(s) /\ peek(s)' = peek(s) /\ size(s)' = size(s)
              /\ \A v \in Values : push(s, v)' = push(s, v)]_vars

\* C2 witness: a peek() has failed on a stack that a successful pop()
\* had just emptied.
C2_Witness ==
    /\ last.op = "peek" /\ last.err # "none"
    /\ prev.op = "pop" /\ prev.err = "none"

\* C3: after n >= 1 pushes v1..vn onto an empty stack with no pop or clear
\* in between, peek() returns vn and size() is n; no push ever fails.
C3_PushesOnly ==
    /\ \A s \in Stacks :
          (run[s].ok /\ Len(run[s].vs) >= 1) =>
              /\ peek(s).err = "none"
              /\ peek(s).ret = <<run[s].vs[Len(run[s].vs)]>>
              /\ size(s) = Len(run[s].vs)
    /\ last.op = "push" => last.err = "none"

\* C3 witness: three pushes in a row onto an empty stack, the last two of
\* different values.
C3_Witness ==
    /\ run[Main].ok /\ Len(run[Main].vs) = 3
    /\ run[Main].vs[2] # run[Main].vs[3]
    /\ last.op = "push"

\* C4: the backing array is the elements pushed and not yet popped or
\* cleared, in push order; a successful pop() and peek() return the most
\* recently pushed of them and pop() leaves the others in push order.
C4_Lifo ==
    \A s \in Stacks :
        /\ contents(s) = InPushOrder(live[s])
        /\ live[s] # {} =>
              /\ peek(s).err = "none" /\ peek(s).ret = <<Top(live[s])>>
              /\ pop(s).err = "none" /\ pop(s).ret = <<Top(live[s])>>
              /\ pop(s).list = InPushOrder(live[s] \ {Newest(live[s])})
        /\ (last.stack = s /\ last.op \in {"pop", "peek"} /\ last.err = "none")
              => last.ret = <<last.before[Len(last.before)]>>

\* C4 witness: a pop() succeeded, two different elements remain and the
\* popped one differs from the one now on top.
C4_Witness ==
    /\ last.op = "pop" /\ last.err = "none"
    /\ Len(contents(Main)) >= 2
    /\ contents(Main)[1] # contents(Main)[2]
    /\ last.ret # <<contents(Main)[2]>>

\* C5: push(v) immediately followed by pop() returns v and leaves the stack
\* as it was before the push (same elements, same order, same size).
C5_PushPopInverse ==
    (last.op = "pop" /\ prev.op = "push" /\ last.stack = prev.stack) =>
        /\ last.err = "none"
        /\ last.ret = prev.arg
        /\ contents(last.stack) = prev.before
        /\ size(last.stack) = Len(prev.before)

\* C5 witness: a pop() directly after a push() onto a non-empty stack.
C5_Witness ==
    /\ last.op = "pop" /\ prev.op = "push"
    /\ Len(prev.before) >= 2

\* C6: is_empty() is true exactly when size() is 0, and the boolean
\* coercion of a stack is the negation of is_empty().
C6_EmptyIffSizeZero ==
    \A s \in Stacks :
        /\ is_empty(s) <=> (size(s) = 0)
        /\ __bool__(s) <=> ~is_empty(s)

\* C6 witness: a stack emptied by a pop().
C6_Witness ==
    /\ last.op = "pop" /\ last.err = "none"
    /\ is_empty(Main) /\ ~__bool__(Main)

\* C7: size() and len() agree, equal the number of elements in the backing
\* array, which is initial elements + pushes - successful pops since the
\* last construction or clear, and are never negative.
C7_SizeIsCount ==
    \A s \in Stacks :
        /\ size(s) = __len__(s)
        /\ size(s) = Len(contents(s))
        /\ size(s) = count[s]
        /\ size(s) >= 0

\* C7 witness: a failed pop() on an empty stack (the count stays 0).
C7_Witness ==
    /\ last.op = "pop" /\ last.err # "none"
    /\ count[Main] = 0 /\ prev.op = "pop" /\ prev.err = "none"

\* C8: clear() never fails and leaves size() = 0 and is_empty() true; a
\* clear() directly after a clear() leaves the state of the first one.
C8_Clear ==
    last.op = "clear" =>
        /\ last.err = "none"
        /\ size(last.stack) = 0
        /\ is_empty(last.stack)
        /\ (prev.op = "clear" /\ prev.stack = last.stack)
              => contents(last.stack) = last.before

\* C8 witness: clear() of a stack of two or more elements.
C8_Witness ==
    last.op = "clear" /\ Len(last.before) >= 2

\* C8 witness of the idempotent case: clear() directly after clear().
C8_WitnessTwice ==
    last.op = "clear" /\ prev.op = "clear" /\ Len(prev.before) >= 2

\* C9: over a stack with backing array x1..xn that is not mutated, an
\* iteration yields xn, ..., x1 in this order, one element per step, and
\* ends after the n-th; an iteration requested after an exhausted one
\* yields the same sequence.
C9_Iteration ==
    \A i \in Iters :
        LET g == iters[i]
            xs == contents(g.stack)
        IN g.pc # "none" =>
            /\ g.res \in {"none", "yield", "StopIteration"}
            /\ Len(g.out) <= Len(xs)
            /\ g.out = SubSeq(Reverse(xs), 1, Len(g.out))
            /\ g.pc = "created" => g.out = <<>>
            /\ g.pc = "suspended" => (g.res = "yield" /\ Len(g.out) >= 1)
            /\ g.pc = "done" =>
                  /\ g.res = "StopIteration"
                  /\ g.out = Reverse(xs)
                  /\ \A e \in g.earlier : g.out = e

\* C9 witness: an iteration over three or more elements with different
\* ends is exhausted, and it was requested after another was exhausted.
C9_Witness ==
    \E i \in Iters :
        /\ iters[i].pc = "done" /\ iters[i].earlier # {}
        /\ Len(iters[i].out) >= 3
        /\ iters[i].out[1] # iters[i].out[Len(iters[i].out)]

\* C10: a stack constructed from the sequence x1..xn has exactly x1..xn as
\* its bottom-to-top contents, size() n and, for n >= 1, peek() = xn; one
\* constructed with no argument or from an empty sequence is empty.
C10_Construct ==
    last.op = "__init__" =>
        LET s == last.stack IN
        IF last.arg = <<>> THEN contents(s) = <<>> /\ is_empty(s)
        ELSE LET xs == last.arg[1] IN
             /\ contents(s) = xs
             /\ size(s) = Len(xs)
             /\ Len(xs) >= 1 =>
                   (peek(s).err = "none" /\ peek(s).ret = <<xs[Len(xs)]>>)
             /\ Len(xs) = 0 => is_empty(s)

\* C10 witness: construction from a sequence whose ends differ.
C10_Witness ==
    /\ last.op = "__init__" /\ last.arg # <<>>
    /\ Len(last.arg[1]) >= 2
    /\ last.arg[1][1] # last.arg[1][Len(last.arg[1])]

\* C13: a successful peek() returns the top and leaves size and contents as
\* they were; a peek() directly after a successful peek() returns the same
\* value, and so does a pop() directly after a successful peek().
C13_PeekLeavesStack ==
    /\ (last.op = "peek" /\ last.err = "none") =>
          /\ last.before # <<>>
          /\ last.ret = <<last.before[Len(last.before)]>>
          /\ contents(last.stack) = last.before
          /\ size(last.stack) = Len(last.before)
    /\ (prev.op = "peek" /\ prev.err = "none" /\ last.stack = prev.stack
            /\ last.op \in {"peek", "pop"}) =>
          /\ last.err = "none"
          /\ last.ret = prev.ret
          /\ last.before = prev.before

\* C13 witness: a pop() directly after a successful peek() of a stack of
\* two or more elements whose top two differ.
C13_Witness ==
    /\ last.op = "pop" /\ prev.op = "peek" /\ prev.err = "none"
    /\ Len(prev.before) >= 2
    /\ prev.before[Len(prev.before)] # prev.before[Len(prev.before) - 1]

\* C13 witness of the repeated case: peek() directly after peek().
C13_WitnessTwice ==
    /\ last.op = "peek" /\ prev.op = "peek" /\ last.err = "none"
    /\ Len(last.before) >= 2

\* C15: a step of one iteration over an unmutated stack changes no other
\* iteration, and yields the element that follows what this iteration has
\* yielded so far in top-to-bottom order (or ends after the last one),
\* wherever the other iterations stand.
C15_IndependentCursors ==
    [][\A i \in Iters :
          IterNext(i) =>
              LET g == iters[i]
                  h == iters'[i]
                  order == Reverse(contents(g.stack))
              IN /\ \A j \in Iters \ {i} : iters'[j] = iters[j]
                 /\ IF Len(g.out) < Len(order)
                    THEN h.res = "yield" /\ h.out = Append(g.out, order[Len(g.out) + 1])
                    ELSE h.res = "StopIteration" /\ h.out = order /\ h.pc = "done"]_vars

\* C15 witness: two iterations over three or more elements with different
\* ends are both exhausted, neither requested after the other had ended.
C15_Witness ==
    \E i, j \in Iters :
        /\ i # j
        /\ iters[i].pc = "done" /\ iters[j].pc = "done"
        /\ iters[i].earlier = {} /\ iters[j].earlier = {}
        /\ iters[i].out = iters[j].out
        /\ Len(iters[i].out) >= 3
        /\ iters[i].out[1] # iters[i].out[Len(iters[i].out)]

\* C14: in every reachable state, hashing the stack and using it as a dict
\* key both fail with TypeError and produce no hash value, and a call that
\* did so left the stack as it was.
C14_Unhashable ==
    /\ \A s \in Stacks :
          /\ builtin_hash(s).err = "TypeError" /\ builtin_hash(s).ret = <<>>
          /\ dict_setitem(s).err = "TypeError"
    /\ last.op \in {"hash", "dict_key"} =>
          /\ last.err = "TypeError"
          /\ last.ret = <<>>
          /\ contents(last.stack) = last.before

\* C14 witness: a stack of two or more elements was used as a dict key.
C14_Witness ==
    /\ last.op = "dict_key" /\ last.err = "TypeError"
    /\ Len(last.before) >= 2

\* C14 witness of the empty case: hash() of an empty stack after clear().
C14_WitnessEmpty ==
    /\ last.op = "hash" /\ last.before = <<>> /\ prev.op = "clear"

\* C12: whatever operations produced them, two stacks compare equal exactly
\* when their backing arrays have the same length and the same element at
\* every position; stacks of different sizes are never equal.
C12_EqualIffSameContents ==
    /\ \A s \in Pair, o \in Pair :
          LET same == /\ Len(contents(s)) = Len(contents(o))
                      /\ \A i \in 1..Len(contents(s)) : contents(s)[i] = contents(o)[i]
              answer == operator_eq(s, StackOperand(o))
          IN /\ answer.err = "none"
             /\ answer.ret = <<PyBool(same)>>
             /\ __eq__(s, StackOperand(o)) = PyBool(same)
             /\ size(s) # size(o) => answer.ret = <<"False">>
    /\ (last.op \in {"==", "__eq__"} /\ last.ret = <<"True">>)
          => InPushOrder(live[last.stack]) = InPushOrder(live[last.arg[1].stack])
    /\ (last.op \in {"==", "__eq__"} /\ last.ret # <<"True">>)
          => (/\ last.ret = <<"False">>
              /\ InPushOrder(live[last.stack]) # InPushOrder(live[last.arg[1].stack]))

\* C12 witness: two different stacks holding the same two different
\* elements compared equal, one of them just changed by a push().
C12_Witness ==
    /\ last.op = "==" /\ last.ret = <<"True">>
    /\ last.arg[1].stack # last.stack
    /\ Len(last.before) >= 2 /\ last.before[1] # last.before[2]
    /\ prev.op = "push"

\* C12 witness of unequal stacks of the same size: the same elements in a
\* different order.
C12_WitnessOrder ==
    /\ last.op = "==" /\ last.ret = <<"False">>
    /\ Len(contents(Main)) = Len(contents(Other))
    /\ Len(contents(Main)) >= 2
    /\ contents(Main)[1] = contents(Other)[2]
    /\ contents(Main)[2] = contents(Other)[1]

\* C17: comparing a stack with a value that is not a stack raises nothing:
\* __eq__ answers NotImplemented and the comparison s == other is False,
\* also for a list or tuple of the stack's own elements.
C17_NotAStack ==
    /\ \A o \in Builtins(Main) :
          /\ __eq__(Main, o) = "NotImplemented"
          /\ operator_eq(Main, o).err = "none"
          /\ operator_eq(Main, o).ret = <<"False">>
    /\ (last.op = "__eq__" /\ ~isinstance_ArrayStack(last.arg[1]))
          => (last.err = "none" /\ last.ret = <<"NotImplemented">>)
    /\ (last.op = "==" /\ ~isinstance_ArrayStack(last.arg[1]))
          => (/\ last.err = "none" /\ last.ret = <<"False">>
              /\ contents(last.stack) = last.before)

\* C17 witness: a stack of two or more elements was compared with the list
\* of its own elements.
C17_Witness ==
    /\ last.op = "==" /\ last.ret = <<"False">>
    /\ last.arg[1] = Builtin("list", contents(Main))
    /\ Len(contents(Main)) >= 2

\* C16: no step of an iteration raises an error, also when push, pop or
\* clear are called between the steps: every step yields an element or
\* ends the iteration.
C16_IterationNeverFails ==
    \A i \in Iters :
        iters[i].pc # "none" => iters[i].res \in {"none", "yield", "StopIteration"}

\* the call built a stack from a stack: its arguments are recorded as the
\* source stack and that stack's elements at the time of the call
FromStack(call) == call.op = "__init__" /\ Len(call.arg) = 2

\* C18: a stack constructed from a stack s holds s's elements in reverse
\* bottom-to-top order and s is unchanged, so the two are equal exactly
\* when s reads the same in both directions; constructing again from the
\* result gives a stack equal to s.
C18_ConstructFromStack ==
    /\ FromStack(last) =>
          LET new == last.stack
              s == last.arg[1].stack
              xs == last.arg[2]
          IN /\ contents(new) = Reverse(xs)
             /\ size(new) = Len(xs)
             /\ s # new =>
                   /\ contents(s) = xs
                   /\ contents(s) = InPushOrder(live[s])
                   /\ operator_eq(new, StackOperand(s)).ret = <<PyBool(xs = Reverse(xs))>>
    /\ (FromStack(last) /\ FromStack(prev) /\ last.stack = prev.stack
            /\ last.arg[1].stack = prev.stack /\ prev.arg[1].stack # prev.stack) =>
          /\ contents(last.stack) = prev.arg[2]
          /\ contents(prev.arg[1].stack) = prev.arg[2]
          /\ operator_eq(last.stack, StackOperand(prev.arg[1].stack)).ret = <<"True">>

\* C18 witness: a stack built from a stack built from a stack s of two
\* different elements.
C18_Witness ==
    /\ FromStack(last) /\ FromStack(prev)
    /\ last.arg[1].stack = Other /\ prev.arg[1].stack = Main
    /\ Len(contents(Main)) >= 2
    /\ contents(Main)[1] # contents(Main)[Len(contents(Main))]

\* C18 witness of one construction: the new stack differs from s.
C18_WitnessOnce ==
    /\ FromStack(prev) /\ prev.arg[1].stack = Main
    /\ last.op = "==" /\ last.ret = <<"False">>
    /\ Len(contents(Main)) >= 2

SourceStep == (\E v \in Values : SourceAppend(v)) \/ SourcePop \/ SourceClear
StackStep(s) == (\E v \in Values : Push(s, v)) \/ Pop(s) \/ Clear(s)

\* C11: no stack's backing list is the list it was constructed from or the
\* backing list of another stack; a mutation of the source list changes no
\* stack's contents, and a push, pop or clear on a stack changes neither the
\* source list nor another stack's contents.
C11_DefensiveCopy ==
    [][/\ \A s \in Pair : _values'[s] # SourceList
       /\ \A s \in Pair, o \in Pair : s # o => _values'[s] # _values'[o]
       /\ SourceStep => \A s \in Pair : heap'[_values'[s]] = contents(s)
       /\ \A s \in Pair :
             StackStep(s) =>
                 /\ heap'[SourceList] = heap[SourceList]
                 /\ \A o \in Pair \ {s} : heap'[_values'[o]] = contents(o)
       /\ \A s \in Pair :
             NewFromList(s, SourceList) =>
                 /\ heap'[SourceList] = heap[SourceList]
                 /\ heap'[_values'[s]] = heap[SourceList]
                 /\ \A o \in Pair \ {s} : heap'[_values'[o]] = contents(o)]_vars

\* C11 witness: both stacks were built from the same non-empty source, one
\* directly after the other, and the source list was mutated afterwards.
C11_Witness ==
    /\ last.op = "__init__" /\ prev.op = "__init__"
    /\ last.stack # prev.stack
    /\ last.arg = prev.arg /\ last.arg # <<>> /\ Len(last.arg[1]) >= 1
    /\ heap[SourceList] # last.arg[1]
    /\ contents(Main) = last.arg[1] /\ contents(Other) = last.arg[1]

\* C11 witness of the other direction: a stack built from a non-empty
\* source was cleared and the source list still holds its elements.
C11_WitnessStackMutated ==
    /\ last.op = "clear" /\ prev.op = "__init__" /\ last.stack = prev.stack
    /\ prev.arg # <<>> /\ Len(prev.arg[1]) >= 1
    /\ heap[SourceList] = prev.arg[1]

====
